---- MODULE Spec2Model ----
(***************************************************************************)
(* Model of the LYRA Telegram bot (src/main.py, src/gemini_client.py):     *)
(* the free-text message handler CryptoStocksBot.handle_message, the       *)
(* backend wrapper GeminiClient.get_educational_response, the prompt       *)
(* builder and the markdown sanitizer.                                     *)
(*                                                                         *)
(* Text is modelled as a sequence of one-character strings, so substring   *)
(* tests, lower-casing and the regular-expression substitutions of the     *)
(* sanitizer are computed character by character, as the code does.        *)
(***************************************************************************)
EXTENDS Integers, Sequences, FiniteSets, TLC

VARIABLES
    botUsername,   \* context.bot.username: None or a string
    userMem,       \* DataManager: user_id -> list of stored conversations
    groupMem,      \* DataManager: group chat_id -> list of stored conversations
    pc,            \* position of the handler task that is being run
    cur,           \* locals of the handle_message call in progress / last finished
    handled,       \* number of updates delivered to handle_message so far
    profiles,      \* UserManager: user_id -> stored display name, or None
    san,           \* sanitizer harness: the input and the result of one and two passes
    win,           \* prompt harness: the prompt built over stored memories
    progress,      \* ProgressTracker: user_id -> "default" or "active"
    tribute_enabled, \* CryptoStocksBot.tribute_enabled
    tributeLog,    \* what each firing of the daily tribute job did
    polls,         \* PollManager.polls: poll_id -> poll, or None
    pollOp,        \* the last PollManager call: its arguments, result and the polls before
    penalties,     \* PenaltyManager.penalties: the record of Neel, or None
    penaltyFile,   \* the content of data/penalties.json: the record of Neel, or None
    today,         \* datetime.now().date(), as a day number
    penOp          \* the last PenaltyManager call: its arguments, result and the record before

\* The state of the features beside the conversation pipeline.
sideVars == <<tribute_enabled, tributeLog, polls, pollOp, penalties, penaltyFile, today, penOp>>

\* The state of the conversation pipeline and of its harnesses.
coreVars == <<botUsername, userMem, groupMem, pc, cur, handled, profiles, san, win, progress>>

vars == <<botUsername, userMem, groupMem, pc, cur, handled, profiles, san, win, progress,
          tribute_enabled, tributeLog, polls, pollOp, penalties, penaltyFile, today, penOp>>

None == "None"

\* Python's None where a text is expected (a text is a sequence).
NoText == <<"None">>

-----------------------------------------------------------------------------
(* Strings *)

\* s[i..j] of a Python string (1-based, inclusive); empty when j < i.
Slice(s, i, j) == SubSeq(s, i, j)

\* Python's (needle in hay).
IsSubstring(needle, hay) ==
    \E i \in 1..(Len(hay) - Len(needle) + 1) :
        Slice(hay, i, i + Len(needle) - 1) = needle

\* str.lower(), one character.
LowerChar(c) ==
    CASE c = "L" -> "l"
      [] c = "Y" -> "y"
      [] c = "R" -> "r"
      [] c = "A" -> "a"
      [] OTHER -> c

\* str.lower().
Lower(s) == [i \in 1..Len(s) |-> LowerChar(s[i])]

\* Python's s[-n:] on a list.
LastN(s, n) == IF Len(s) > n THEN SubSeq(s, Len(s) - n + 1, Len(s)) ELSE s

-----------------------------------------------------------------------------
(* The sanitizer: CryptoStocksBot._clean_markdown_response *)

\* The first position j >= i with s[j] = c, or Len(s) + 1: the end of the
\* maximal run matched by a negated class [^c]* that starts at i.
RECURSIVE RunEnd(_, _, _)
RunEnd(s, i, c) ==
    IF i > Len(s) THEN Len(s) + 1
    ELSE IF s[i] = c THEN i
    ELSE RunEnd(s, i + 1, c)

\* The backtick character (the lexer of TLA+ reserves the character itself).
Backtick == "bt"

At(s, i) == IF i >= 1 /\ i <= Len(s) THEN s[i] ELSE None

\* For each pattern: the last position of the match that starts at i, or 0 when
\* the pattern does not match at i.  The negated classes are greedy and each is
\* followed by the excluded character, so the run is the only candidate.

\* \*\*([^*]+)\*\*
BoldEnd(s, i) ==
    LET j == RunEnd(s, i + 2, "*") IN
    IF /\ At(s, i) = "*" /\ At(s, i + 1) = "*"
       /\ j > i + 2
       /\ At(s, j) = "*" /\ At(s, j + 1) = "*"
    THEN j + 1 ELSE 0

\* \*([^*]+)\*
ItalicEnd(s, i) ==
    LET j == RunEnd(s, i + 1, "*") IN
    IF At(s, i) = "*" /\ j > i + 1 /\ At(s, j) = "*" THEN j ELSE 0

\* three backticks, [^backtick]*, three backticks
FenceEnd(s, i) ==
    LET j == RunEnd(s, i + 3, Backtick) IN
    IF /\ At(s, i) = Backtick /\ At(s, i + 1) = Backtick /\ At(s, i + 2) = Backtick
       /\ At(s, j) = Backtick /\ At(s, j + 1) = Backtick /\ At(s, j + 2) = Backtick
    THEN j + 2 ELSE 0

\* backtick, ([^backtick]+), backtick
CodeEnd(s, i) ==
    LET j == RunEnd(s, i + 1, Backtick) IN
    IF At(s, i) = Backtick /\ j > i + 1 /\ At(s, j) = Backtick THEN j ELSE 0

\* \[([^\]]+)\]\([^)]+\)
LinkEnd(s, i) ==
    LET j == RunEnd(s, i + 1, "]")
        k == RunEnd(s, j + 2, ")")
    IN
    IF /\ At(s, i) = "[" /\ j > i + 1 /\ At(s, j) = "]"
       /\ At(s, j + 1) = "(" /\ k > j + 2 /\ At(s, k) = ")"
    THEN k ELSE 0

CodeBlockText == <<"[", "c", "o", "d", "e", " ", "b", "l", "o", "c", "k", "]">>

MatchEnd(p, s, i) ==
    CASE p = "bold"   -> BoldEnd(s, i)
      [] p = "italic" -> ItalicEnd(s, i)
      [] p = "fence"  -> FenceEnd(s, i)
      [] p = "code"   -> CodeEnd(s, i)
      [] p = "link"   -> LinkEnd(s, i)

\* The replacement template of each re.sub call, expanded for the match s[i..e].
Replacement(p, s, i, e) ==
    CASE p = "bold"   -> Slice(s, i + 2, e - 2)
      [] p = "italic" -> Slice(s, i + 1, e - 1)
      [] p = "fence"  -> CodeBlockText
      [] p = "code"   -> <<"\"">> \o Slice(s, i + 1, e - 1) \o <<"\"">>
      [] p = "link"   -> Slice(s, i + 1, RunEnd(s, i + 1, "]") - 1)

\* re.sub(pattern, repl, s): leftmost non-overlapping matches, scanned from
\* position i on; the replacement text is not scanned again.
RECURSIVE SubFrom(_, _, _)
SubFrom(p, s, i) ==
    IF i > Len(s) THEN <<>>
    ELSE LET e == MatchEnd(p, s, i) IN
         IF e > 0 THEN Replacement(p, s, i, e) \o SubFrom(p, s, e + 1)
         ELSE <<s[i]>> \o SubFrom(p, s, i + 1)

re_sub(p, s) == SubFrom(p, s, 1)

clean_markdown_response(response) ==
    re_sub("link", re_sub("code", re_sub("fence", re_sub("italic", re_sub("bold", response)))))

-----------------------------------------------------------------------------
(* Sanitizer harness: the sanitizer applied once and twice to bounded texts *)

MaxLen == 5

SanAlphabet == {"*", Backtick, "a", "[", "]", "(", ")"}

RECURSIVE StringsUpTo(_)
StringsUpTo(n) ==
    IF n = 0 THEN {<<>>}
    ELSE LET shorter == StringsUpTo(n - 1) IN
         shorter \cup {Append(s, c) : s \in {t \in shorter : Len(t) = n - 1}, c \in SanAlphabet}

\* '****a****' and '[[x](y)](z)'
NestedBold == <<"*", "*", "*", "*", "a", "*", "*", "*", "*">>
NestedLink == <<"[", "[", "a", "]", "(", "a", ")", "]", "(", "a", ")">>

SanInputs == StringsUpTo(MaxLen) \cup {NestedBold, NestedLink}

SanIdle == [input |-> NoText, once |-> NoText, twice |-> NoText]


-----------------------------------------------------------------------------
(* The chats, users and texts the updates are drawn from *)

Users == {"u1", "u2"}

\* update.effective_user.first_name: u2 has none.
first_name(u) == IF u = "u1" THEN "Neel" ELSE None

ChatTypes == {"private", "group", "supergroup"}

GroupTypes == {"group", "supergroup"}

Groups == {"g1", "g2"}

\* update.message.chat.id: a private chat carries the user's id.
ChatIdOf(u, chat_type) ==
    CASE chat_type = "private"    -> u
      [] chat_type = "group"      -> "g1"
      [] chat_type = "supergroup" -> "g2"

BotName == <<"f", "b">>

HiText      == <<"h", "i">>
NameText    == <<"h", "i", " ", "L", "y", "r", "a">>
MentionText == <<"@", "f", "b", " ", "h", "i">>
LossText    == <<"m", "y", " ", "l", "o", "s", "s">>

\* update.message.text; the empty text stands for an update without text.
Texts == {<<>>, HiText, NameText, MentionText, LossText}

\* update.message.reply_to_message: none, a message of a person, a message of a bot.
ReplyTargets == {"none", "human", "bot"}

MarkdownReply   == <<"*", "o", "k", "*">>
\* The reply by which the persona says it has nothing to say.
SilenceSentinel == <<"S", "I", "L", "E", "N", "T">>

\* What client.models.generate_content can do: return a response whose text is
\* a reply, is empty or is None, or raise.
BackendResults ==
    {[kind |-> "text", text |-> r] : r \in {MarkdownReply, SilenceSentinel}}
    \cup {[kind |-> "text", text |-> <<>>], [kind |-> "null", text |-> NoText],
          [kind |-> "raise", text |-> NoText]}

\* The fixed texts of the code, abbreviated; none of them holds a markup character.
RephraseText  == <<"r", "e", "p", "h", "r", "a", "s", "e">>   \* gemini_client.py:105
TechnicalText == <<"t", "e", "c", "h">>                       \* gemini_client.py:109
SorryText     == <<"s", "o", "r", "r", "y">>                  \* main.py:366

-----------------------------------------------------------------------------
(* Collaborators that are not part of the sources: DataManager, UserManager *)

\* UserManager.get_user_info: the stored profile, or a synthesized default
\* profile whose display name is the placeholder.
get_user_info(u) ==
    IF profiles[u] # None THEN [display_name |-> profiles[u]]
    ELSE [display_name |-> "Student"]

\* The lookup of a key the profile does not hold, without a default.
DisplayNameOr_MissingKey(user_info, default) == None

\* dict.get('display_name', default): the stored value when the key is present.
DisplayNameOr(user_info, default) ==
    IF user_info.display_name # None THEN user_info.display_name ELSE default

\* DataManager.get_user_memories / get_group_memories: the whole scope, oldest
\* first; an absent scope reads as the empty list.
get_user_memories(u) == userMem[u]
get_group_memories(g) == groupMem[g]

\* DataManager.store_conversation / store_group_conversation: append one turn.
store_conversation(mem, key, turn) == [mem EXCEPT ![key] = Append(@, turn)]
store_group_conversation(mem, key, turn) == [mem EXCEPT ![key] = Append(@, turn)]

-----------------------------------------------------------------------------
(* CryptoStocksBot._format_recent_memories and _build_context_prompt *)

NoPrevious == <<[speaker |-> None, text |-> <<"No previous conversations">>]>>

\* The "Bot:" line written for every stored conversation.
MemoryLines_AlwaysReply(memory) ==
    <<[speaker |-> memory.user_name, text |-> memory.user_message],
      [speaker |-> "Bot", text |-> memory.ai_response]>>

\* The lines of one stored conversation: the user's line when the message is
\* non-empty, the "Bot:" line when the reply is non-empty.
MemoryLines(memory) ==
    (IF memory.user_message # <<>>
        THEN <<[speaker |-> memory.user_name, text |-> memory.user_message]>> ELSE <<>>)
    \o (IF memory.ai_response # NoText /\ memory.ai_response # <<>>
        THEN <<[speaker |-> "Bot", text |-> memory.ai_response]>> ELSE <<>>)

RECURSIVE JoinLines(_)
JoinLines(memories) ==
    IF memories = <<>> THEN <<>>
    ELSE MemoryLines(Head(memories)) \o JoinLines(Tail(memories))

RecentWindow == 5

\* The window taken from the front of the list.
Recent_Oldest(memories) ==
    IF Len(memories) > RecentWindow THEN SubSeq(memories, 1, RecentWindow) ELSE memories

\* memories[-5:] if len(memories) > 5 else memories
Recent(memories) == LastN(memories, RecentWindow)

format_recent_memories(memories) ==
    IF memories = <<>> THEN NoPrevious ELSE JoinLines(Recent(memories))

\* The roster block of the prompt, by its mention handles.
Roster == <<"@TheShul", "@Er_Stranger", "@Nexxxyzz", "@pr_amod18">>

\* The roster put into the request of every chat type.
build_context_prompt_RosterAlways(user_info, memories, current_message, chat_type) ==
    [current_user    |-> DisplayNameOr(user_info, "Student"),
     chat_context    |-> Roster,
     history         |-> format_recent_memories(memories),
     current_message |-> current_message]

build_context_prompt(user_info, memories, current_message, chat_type) ==
    [current_user    |-> DisplayNameOr(user_info, "Student"),
     chat_context    |-> IF chat_type \in GroupTypes THEN Roster ELSE <<>>,
     history         |-> format_recent_memories(memories),
     current_message |-> current_message]

UserSlice == 5

\* main.py:312-322: the memories handed to the prompt builder.
all_memories(u, chat_id, chat_type) ==
    IF chat_type \in GroupTypes
    THEN get_group_memories(chat_id) \o LastN(get_user_memories(u), UserSlice)
    ELSE get_user_memories(u)

-----------------------------------------------------------------------------
(* The engagement gate of handle_message, main.py:279-291 *)

is_mentioned(text) ==
    IF botUsername # None THEN IsSubstring(<<"@">> \o botUsername, text) ELSE FALSE

is_reply_to_bot(reply_to) == reply_to = "bot"

\* The name test without lower-casing.
is_called_by_name_CaseSensitive(text) ==
    \/ IsSubstring(<<"l", "y", "r", "a">>, text)
    \/ IsSubstring(<<"L", "Y", "R", "A">>, text)

is_called_by_name(text) ==
    \/ IsSubstring(<<"l", "y", "r", "a">>, Lower(text))
    \/ IsSubstring(<<"L", "Y", "R", "A">>, text)

\* The gate applied to every chat type.
Decision_GateEveryChat(chat_type, text, reply_to) ==
    IF text = <<>> THEN "Ignored"
    ELSE IF ~(is_mentioned(text) \/ is_reply_to_bot(reply_to) \/ is_called_by_name(text))
         THEN "Skip"
         ELSE "EngageDirect"

\* "Ignored": the update has no text; "Skip": the group gate returns;
\* "EngageDirect": the handler goes on to the backend.
Decision(chat_type, text, reply_to) ==
    IF text = <<>> THEN "Ignored"
    ELSE IF /\ chat_type \in GroupTypes
            /\ ~(is_mentioned(text) \/ is_reply_to_bot(reply_to) \/ is_called_by_name(text))
         THEN "Skip"
         ELSE "EngageDirect"


-----------------------------------------------------------------------------
(* GeminiClient.get_educational_response *)

\* The wrapper returning None from its except clause.
get_educational_response_NoFallback(result) ==
    IF result.kind = "raise" THEN NoText
    ELSE IF result.kind = "text" /\ result.text # <<>> THEN result.text
    ELSE RephraseText

\* The wrapper handing on whatever text the response holds.
get_educational_response_EmptyPassesThrough(result) ==
    IF result.kind = "raise" THEN TechnicalText
    ELSE IF result.kind = "text" THEN result.text
    ELSE <<>>

\* The wrapper's return value for what generate_content did: the text when it
\* is non-empty, the rephrase text when it is empty or None, the technical
\* difficulties text when the call raised.
get_educational_response(result) ==
    IF result.kind = "raise" THEN TechnicalText
    ELSE IF result.kind = "text" /\ result.text # <<>> THEN result.text
    ELSE RephraseText

\* gemini_client.py:107-108: the wrapper logs what the client raised.
WrapperLog(result) ==
    IF result.kind = "raise" THEN <<"Error getting Gemini response">> ELSE <<>>

-----------------------------------------------------------------------------
(* CryptoStocksBot.handle_message, one action per stretch between awaits *)

MaxMsgs == 2

NoTurn ==
    [user_message |-> NoText, user_name |-> None, user_id |-> None,
     chat_id |-> None, chat_type |-> None, ai_response |-> NoText]

NoPrompt ==
    [current_user |-> None, chat_context |-> <<>>, history |-> <<>>,
     current_message |-> NoText]

NoResult == [kind |-> "none", text |-> NoText]

WinIdle == [built |-> FALSE, user |-> None, chat_type |-> None, prompt |-> NoPrompt]

EmptyMem == [user |-> [u \in Users |-> <<>>], group |-> [g \in Groups |-> <<>>]]

\* The locals of a call, and what has happened in it: the outcome of each
\* awaited call, the messages delivered to the chat, the sends attempted, the
\* log records written, and the memory as it was when the call began.
NoCur ==
    [user |-> None, username |-> None, chat_type |-> None, chat_id |-> None,
     text |-> NoText,
     reply_to |-> "none", decision |-> None, conversation_data |-> NoTurn,
     prompt |-> NoPrompt, typing |-> "none", result |-> NoResult,
     ai_response |-> NoText, store |-> "none", clean_response |-> NoText,
     reply |-> "none", apology |-> "none", handler_error |-> FALSE,
     sent |-> <<>>, attempted |-> <<>>, logs |-> <<>>, before |-> EmptyMem]

\* Message.reply_text: a threaded reply outside private chats.
Outbound(c, text, kind) ==
    [chat_id |-> c.chat_id, text |-> text, kind |-> kind,
     threaded |-> (c.chat_type # "private")]

\* A group conversation written to the group scope alone.
WriteScopes_GroupOnly(chat_type) ==
    IF chat_type \in GroupTypes THEN {"group"} ELSE {"user"}

\* main.py:343-353: the scopes a finished conversation is written to.
WriteScopes(chat_type) ==
    IF chat_type \in GroupTypes THEN {"group", "user"} ELSE {"user"}

\* main.py:271-330: the early returns, the group gate, the display name, the
\* conversation record, the memories and the prompt.
handle_message(u, chat_type, text, reply_to) ==
    /\ pc = "idle"
    /\ handled < MaxMsgs
    /\ chat_type = "private" => reply_to = "none"
    /\ handled' = handled + 1
    /\ LET d == Decision(chat_type, text, reply_to)
           chat_id == ChatIdOf(u, chat_type)
           user_info == get_user_info(u)
           first == IF first_name(u) # None THEN first_name(u) ELSE "Unknown"
           display_name == DisplayNameOr(user_info, first)
           conversation_data ==
               [user_message |-> text, user_name |-> display_name, user_id |-> u,
                chat_id |-> chat_id, chat_type |-> chat_type, ai_response |-> NoText]
           received ==
               [NoCur EXCEPT !.user = u, !.chat_type = chat_type, !.chat_id = chat_id,
                             !.text = text, !.reply_to = reply_to, !.decision = d,
                             !.before = [user |-> userMem, group |-> groupMem]]
       IN
       IF d = "EngageDirect"
       THEN /\ cur' = [received EXCEPT
                          !.conversation_data = conversation_data,
                          !.prompt = build_context_prompt(
                                         user_info, all_memories(u, chat_id, chat_type),
                                         text, chat_type)]
            /\ pc' = "typing"
       ELSE /\ cur' = received
            /\ pc' = "idle"
    /\ UNCHANGED <<botUsername, userMem, groupMem, profiles, san, win, progress, sideVars>>

\* main.py:334: await context.bot.send_chat_action; a raise goes to the except clause.
send_chat_action ==
    /\ pc = "typing"
    /\ \/ /\ cur' = [cur EXCEPT !.typing = "ok"]
          /\ pc' = "backend"
       \/ /\ cur' = [cur EXCEPT !.typing = "raised"]
          /\ pc' = "except"
    /\ UNCHANGED <<botUsername, userMem, groupMem, handled, profiles, san, win, progress, sideVars>>

\* main.py:337-341: the wrapper call and the reply put into the conversation record.
call_backend(result) ==
    /\ pc = "backend"
    /\ LET ai_response == get_educational_response(result) IN
       cur' = [cur EXCEPT
                  !.result = result,
                  !.ai_response = ai_response,
                  !.conversation_data = [@ EXCEPT !.ai_response = ai_response],
                  !.logs = @ \o WrapperLog(result)]
    /\ pc' = "store"
    /\ UNCHANGED <<botUsername, userMem, groupMem, handled, profiles, san, win, progress, sideVars>>

\* Where a storage error can strike in main.py:343-356: in the group write,
\* in the user write, or in the activity update that follows them.
FailPoints(chat_type) ==
    IF "group" \in WriteScopes(chat_type) THEN {"ok", "group", "user", "activity"}
    ELSE {"ok", "user", "activity"}

\* A write-back that replaces the direct scope of the sender by the new turn.
store_and_clean_Overwrites(outcome) ==
    /\ pc = "store"
    /\ outcome \in FailPoints(cur.chat_type)
    /\ LET scopes == WriteScopes(cur.chat_type)
           group_ok == "group" \in scopes /\ outcome # "group"
           user_ok  == "user" \in scopes /\ outcome \notin {"group", "user"}
       IN
       /\ groupMem' = IF group_ok
                      THEN store_group_conversation(groupMem, cur.chat_id, cur.conversation_data)
                      ELSE groupMem
       /\ userMem' = IF user_ok
                     THEN [userMem EXCEPT ![cur.user] = <<cur.conversation_data>>]
                     ELSE userMem
       /\ cur' = [cur EXCEPT
                     !.store = outcome,
                     !.clean_response = IF outcome = "ok"
                                        THEN clean_markdown_response(cur.ai_response)
                                        ELSE NoText]
       /\ progress' = IF outcome = "ok"
                       THEN [progress EXCEPT ![cur.user] = "active"]
                       ELSE progress
       /\ pc' = IF outcome = "ok" THEN "reply" ELSE "except"
    /\ UNCHANGED <<botUsername, handled, profiles, san, win, sideVars>>

\* main.py:343-359: the write-back to the group and the user scope (group
\* first), the activity update (which marks the progress of the user as
\* active) and the sanitizing of the reply.
store_and_clean(outcome) ==
    /\ pc = "store"
    /\ outcome \in FailPoints(cur.chat_type)
    /\ LET scopes == WriteScopes(cur.chat_type)
           group_ok == "group" \in scopes /\ outcome # "group"
           user_ok  == "user" \in scopes /\ outcome \notin {"group", "user"}
       IN
       /\ groupMem' = IF group_ok
                      THEN store_group_conversation(groupMem, cur.chat_id, cur.conversation_data)
                      ELSE groupMem
       /\ userMem' = IF user_ok
                     THEN store_conversation(userMem, cur.user, cur.conversation_data)
                     ELSE userMem
       /\ cur' = [cur EXCEPT
                     !.store = outcome,
                     !.clean_response = IF outcome = "ok"
                                        THEN clean_markdown_response(cur.ai_response)
                                        ELSE NoText]
       /\ progress' = IF outcome = "ok"
                       THEN [progress EXCEPT ![cur.user] = "active"]
                       ELSE progress
       /\ pc' = IF outcome = "ok" THEN "reply" ELSE "except"
    /\ UNCHANGED <<botUsername, handled, profiles, san, win, sideVars>>

\* A reply followed by the apology in every run.
reply_text_ThenApology ==
    /\ pc = "reply"
    /\ \/ /\ cur' = [cur EXCEPT
                        !.reply = "ok",
                        !.attempted = Append(@, "reply"),
                        !.sent = Append(@, Outbound(cur, cur.clean_response, "reply"))]
          /\ pc' = "except"
       \/ /\ cur' = [cur EXCEPT !.reply = "raised", !.attempted = Append(@, "reply")]
          /\ pc' = "except"
    /\ UNCHANGED <<botUsername, userMem, groupMem, handled, profiles, san, win, progress, sideVars>>

\* main.py:360: await update.message.reply_text(clean_response).
reply_text ==
    /\ pc = "reply"
    /\ \/ /\ cur' = [cur EXCEPT
                        !.reply = "ok",
                        !.attempted = Append(@, "reply"),
                        !.sent = Append(@, Outbound(cur, cur.clean_response, "reply"))]
          /\ pc' = "idle"
       \/ /\ cur' = [cur EXCEPT !.reply = "raised", !.attempted = Append(@, "reply")]
          /\ pc' = "except"
    /\ UNCHANGED <<botUsername, userMem, groupMem, handled, profiles, san, win, progress, sideVars>>

\* main.py:362-367: the except clause logs and sends the apology; when that
\* send raises too, the exception leaves the handler.
except_clause ==
    /\ pc = "except"
    /\ \/ /\ cur' = [cur EXCEPT
                        !.apology = "ok",
                        !.logs = Append(@, "Error getting AI response"),
                        !.attempted = Append(@, "apology"),
                        !.sent = Append(@, Outbound(cur, SorryText, "apology"))]
          /\ pc' = "idle"
       \/ /\ cur' = [cur EXCEPT
                        !.apology = "raised",
                        !.logs = Append(@, "Error getting AI response"),
                        !.attempted = Append(@, "apology")]
          /\ pc' = "error"
    /\ UNCHANGED <<botUsername, userMem, groupMem, handled, profiles, san, win, progress, sideVars>>

\* An error handler that takes the application down.
error_handler_Stops ==
    /\ pc = "error"
    /\ cur' = [cur EXCEPT !.handler_error = TRUE, !.logs = Append(@, "Update caused error")]
    /\ pc' = "stopped"
    /\ UNCHANGED <<botUsername, userMem, groupMem, handled, profiles, san, win, progress, sideVars>>

\* main.py:790-793: the application hands an exception that left a handler to
\* error_handler, which logs it; the application goes on with the next update.
error_handler ==
    /\ pc = "error"
    /\ cur' = [cur EXCEPT !.handler_error = TRUE, !.logs = Append(@, "Update caused error")]
    /\ pc' = "idle"
    /\ UNCHANGED <<botUsername, userMem, groupMem, handled, profiles, san, win, progress, sideVars>>

-----------------------------------------------------------------------------
(* The command handlers CryptoStocksBot.start and CryptoStocksBot.reset_command *)

\* update.effective_user.username: absent or a handle.
Usernames == {None, "neel_x"}

\* Python's (value or default): the default for None and for the empty string.
OrDefault(value, default) == IF value # None /\ value # "" THEN value ELSE default

\* UserManager.register_user: the display name it stores and returns for the
\* username and the first name it is given: the first name, or the username
\* when the first name is absent, or "Unknown" when both are absent.
register_user(username, first) ==
    IF first # None /\ first # "" THEN first
    ELSE IF username # None /\ username # "" THEN username
    ELSE "Unknown"

\* The welcome message for a display name, abbreviated.
WelcomeText(display_name) == <<"H", "e", "y", " ", display_name, "!">>

ResetText == <<"r", "e", "s", "e", "t">>                     \* main.py:232

\* A start handler that also writes a turn to the memory of the sender.
start_StoresTurn(u, chat_type, username) ==
    /\ pc = "idle"
    /\ LET display_name == register_user(OrDefault(username, ""),
                                         OrDefault(first_name(u), "Unknown"))
           received ==
               [NoCur EXCEPT !.user = u, !.username = username, !.chat_type = chat_type,
                             !.chat_id = ChatIdOf(u, chat_type), !.decision = "start",
                             !.before = [user |-> userMem, group |-> groupMem]]
           welcome == clean_markdown_response(WelcomeText(display_name))
       IN
       /\ profiles' = [profiles EXCEPT ![u] = display_name]
       /\ userMem' = store_conversation(userMem, u, NoTurn)
       /\ \/ /\ cur' = [received EXCEPT
                           !.reply = "ok",
                           !.attempted = <<"welcome">>,
                           !.sent = <<Outbound(received, welcome, "welcome")>>]
             /\ pc' = "idle"
          \/ /\ cur' = [received EXCEPT !.reply = "raised", !.attempted = <<"welcome">>]
             /\ pc' = "error"
    /\ UNCHANGED <<botUsername, groupMem, handled, san, win, progress, sideVars>>

\* main.py:50-90: /start registers the sender with (username or "") and
\* (first_name or "Unknown") and replies with the sanitized welcome message;
\* when the send raises, the exception leaves the handler.
start(u, chat_type, username) ==
    /\ pc = "idle"
    /\ LET display_name == register_user(OrDefault(username, ""),
                                         OrDefault(first_name(u), "Unknown"))
           received ==
               [NoCur EXCEPT !.user = u, !.username = username, !.chat_type = chat_type,
                             !.chat_id = ChatIdOf(u, chat_type), !.decision = "start",
                             !.before = [user |-> userMem, group |-> groupMem]]
           welcome == clean_markdown_response(WelcomeText(display_name))
       IN
       /\ profiles' = [profiles EXCEPT ![u] = display_name]
       /\ \/ /\ cur' = [received EXCEPT
                           !.reply = "ok",
                           !.attempted = <<"welcome">>,
                           !.sent = <<Outbound(received, welcome, "welcome")>>]
             /\ pc' = "idle"
          \/ /\ cur' = [received EXCEPT !.reply = "raised", !.attempted = <<"welcome">>]
             /\ pc' = "error"
    /\ UNCHANGED <<botUsername, userMem, groupMem, handled, san, win, progress, sideVars>>

\* main.py:224-233: /reset resets the progress of the sender in the
\* ProgressTracker and replies with the fixed text; no call goes to the
\* DataManager, so the memories stay as they are.
reset_command(u, chat_type) ==
    /\ pc = "idle"
    /\ progress' = [progress EXCEPT ![u] = "default"]
    /\ LET received ==
               [NoCur EXCEPT !.user = u, !.chat_type = chat_type,
                             !.chat_id = ChatIdOf(u, chat_type), !.decision = "reset",
                             !.before = [user |-> userMem, group |-> groupMem]]
       IN
       \/ /\ cur' = [received EXCEPT
                        !.reply = "ok",
                        !.attempted = <<"reset">>,
                        !.sent = <<Outbound(received, ResetText, "reset")>>]
          /\ pc' = "idle"
       \/ /\ cur' = [received EXCEPT !.reply = "raised", !.attempted = <<"reset">>]
          /\ pc' = "error"
    /\ UNCHANGED <<botUsername, userMem, groupMem, handled, profiles, san, win, sideVars>>

-----------------------------------------------------------------------------
(* PenaltyManager, src/penalty_system.py *)

NEEL_USERNAME == "Er_Stranger"

PENALTY_AMOUNT == 100

SKIP_THRESHOLD == 2

\* The usernames the operations are called with.
PenaltyUsers == {NEEL_USERNAME, "TheShul"}

\* The amounts pay_penalty is called with.
Amounts == {-50, 0, 100, 400}

MaxDays == 3

MaxMissed == 3

MaxExceptions == 1

\* The record record_missed_progress and add_exception create for a username;
\* the day 0 stands for the last_skip_date None.
NewRecord ==
    [total_penalty |-> 0, paid_amount |-> 0, missed_days |-> 0, consecutive_skips |-> 0,
     last_skip_date |-> 0, history |-> <<>>, paid_history |-> <<>>, donated_amount |-> 0,
     exceptions |-> <<>>]

\* self.penalties is a dict with no entry or with the entry of Neel: the empty
\* sequence or the sequence of the one record.
NoPenalties == <<>>

NoPenOp ==
    [op |-> "none", username |-> None, amount |-> 0, success |-> FALSE, donated |-> 0,
     before |-> NoPenalties, file_before |-> NoPenalties]

\* The call in progress: its name and arguments, and the ledger it found.
PenCall(op, username, amount) ==
    [NoPenOp EXCEPT !.op = op, !.username = username, !.amount = amount,
                    !.before = penalties, !.file_before = penaltyFile]

\* penalty_system.py:28-44: a manager constructed anew loads the ledger from
\* the file.
load_penalties ==
    /\ penalties' = penaltyFile
    /\ penOp' = [NoPenOp EXCEPT !.op = "load", !.before = penalties,
                                !.file_before = penaltyFile]
    /\ UNCHANGED <<penaltyFile, today>>
    /\ UNCHANGED <<coreVars, tribute_enabled, tributeLog, polls, pollOp>>

\* The calendar day changes.
next_day ==
    /\ today < MaxDays
    /\ today' = today + 1
    /\ UNCHANGED <<penalties, penaltyFile, penOp>>
    /\ UNCHANGED <<coreVars, tribute_enabled, tributeLog, polls, pollOp>>

\* penalty_system.py:46-89
record_missed_progress(username) ==
    /\ LET call == PenCall("record_missed_progress", username, 0) IN
       IF username # NEEL_USERNAME
       THEN /\ penOp' = call
            /\ UNCHANGED <<penalties, penaltyFile>>
       ELSE LET user_data == IF penalties = NoPenalties THEN NewRecord ELSE penalties[1]
                skips == IF user_data.last_skip_date # today
                         THEN user_data.consecutive_skips + 1
                         ELSE user_data.consecutive_skips
                total == user_data.total_penalty + PENALTY_AMOUNT
                entry == [date |-> today, penalty |-> PENALTY_AMOUNT, current_total |-> total]
            IN
            /\ user_data.missed_days < MaxMissed
            /\ penalties' = <<[user_data EXCEPT
                                  !.consecutive_skips = skips,
                                  !.missed_days = @ + 1,
                                  !.total_penalty = total,
                                  !.last_skip_date = today,
                                  !.history = Append(@, entry)]>>
            /\ penaltyFile' = penalties'
            /\ penOp' = [call EXCEPT !.success = TRUE]
    /\ UNCHANGED today
    /\ UNCHANGED <<coreVars, tribute_enabled, tributeLog, polls, pollOp>>

\* penalty_system.py:91-124
add_exception(username) ==
    /\ LET call == PenCall("add_exception", username, 0) IN
       IF username # NEEL_USERNAME
       THEN /\ penOp' = call
            /\ UNCHANGED <<penalties, penaltyFile>>
       ELSE LET user_data == IF penalties = NoPenalties THEN NewRecord ELSE penalties[1]
                exception_entry == [date |-> today, status |-> "pending_approval"]
            IN
            /\ Len(user_data.exceptions) < MaxExceptions
            /\ penalties' = <<[user_data EXCEPT !.exceptions = Append(@, exception_entry)]>>
            /\ penaltyFile' = penalties'
            /\ penOp' = [call EXCEPT !.success = TRUE]
    /\ UNCHANGED today
    /\ UNCHANGED <<coreVars, tribute_enabled, tributeLog, polls, pollOp>>

\* A mark_progress_done that saves the ledger on every path.
mark_progress_done_AlwaysSaves(username) ==
    /\ LET call == PenCall("mark_progress_done", username, 0) IN
       IF username # NEEL_USERNAME
       THEN /\ penOp' = call
            /\ UNCHANGED <<penalties, penaltyFile>>
       ELSE IF penalties = NoPenalties
       THEN /\ penOp' = [call EXCEPT !.success = TRUE]
            /\ UNCHANGED <<penalties, penaltyFile>>
       ELSE LET user_data == penalties[1]
                skips == IF user_data.last_skip_date # today THEN 0
                         ELSE user_data.consecutive_skips
            IN
            /\ penalties' = <<[user_data EXCEPT !.consecutive_skips = skips]>>
            /\ penaltyFile' = penalties'
            /\ penOp' = [call EXCEPT !.success = TRUE]
    /\ UNCHANGED today
    /\ UNCHANGED <<coreVars, tribute_enabled, tributeLog, polls, pollOp>>

\* penalty_system.py:151-175: the reset of consecutive_skips, the early return
\* of the recovery branch (which does not save) and the save of the last path.
mark_progress_done(username) ==
    /\ LET call == PenCall("mark_progress_done", username, 0) IN
       IF username # NEEL_USERNAME
       THEN /\ penOp' = call
            /\ UNCHANGED <<penalties, penaltyFile>>
       ELSE IF penalties = NoPenalties
       THEN /\ penOp' = [call EXCEPT !.success = TRUE]
            /\ UNCHANGED <<penalties, penaltyFile>>
       ELSE LET user_data == penalties[1]
                skips == IF user_data.last_skip_date # today THEN 0
                         ELSE user_data.consecutive_skips
            IN
            /\ penalties' = <<[user_data EXCEPT !.consecutive_skips = skips]>>
            /\ penaltyFile' = IF user_data.total_penalty > 0 /\ skips = 0
                              THEN penaltyFile
                              ELSE penalties'
            /\ penOp' = [call EXCEPT !.success = TRUE]
    /\ UNCHANGED today
    /\ UNCHANGED <<coreVars, tribute_enabled, tributeLog, polls, pollOp>>

\* A pay_penalty that takes what is pending out of an amount that exceeds it.
pay_penalty_ClampsOverpay(username, amount) ==
    /\ LET call == PenCall("pay_penalty", username, amount) IN
       IF username # NEEL_USERNAME \/ penalties = NoPenalties
       THEN /\ penOp' = call
            /\ UNCHANGED <<penalties, penaltyFile>>
       ELSE LET user_data == penalties[1]
                pending_penalty == user_data.total_penalty - user_data.paid_amount
                taken == IF amount > pending_penalty THEN pending_penalty ELSE amount
                payment_entry == [date |-> today, amount |-> taken,
                                  remaining |-> pending_penalty - taken]
            IN
            IF amount <= 0
            THEN /\ penOp' = call
                 /\ UNCHANGED <<penalties, penaltyFile>>
            ELSE /\ penalties' = <<[user_data EXCEPT
                                       !.paid_amount = @ + taken,
                                       !.paid_history = Append(@, payment_entry)]>>
                 /\ penaltyFile' = penalties'
                 /\ penOp' = [call EXCEPT !.success = TRUE]
    /\ UNCHANGED today
    /\ UNCHANGED <<coreVars, tribute_enabled, tributeLog, polls, pollOp>>

\* A pay_penalty that keeps no entry of the payment.
pay_penalty_NoHistory(username, amount) ==
    /\ LET call == PenCall("pay_penalty", username, amount) IN
       IF username # NEEL_USERNAME \/ penalties = NoPenalties
       THEN /\ penOp' = call
            /\ UNCHANGED <<penalties, penaltyFile>>
       ELSE LET user_data == penalties[1]
                pending_penalty == user_data.total_penalty - user_data.paid_amount
            IN
            IF amount <= 0 \/ amount > pending_penalty
            THEN /\ penOp' = call
                 /\ UNCHANGED <<penalties, penaltyFile>>
            ELSE /\ penalties' = <<[user_data EXCEPT !.paid_amount = @ + amount]>>
                 /\ penaltyFile' = penalties'
                 /\ penOp' = [call EXCEPT !.success = TRUE]
    /\ UNCHANGED today
    /\ UNCHANGED <<coreVars, tribute_enabled, tributeLog, polls, pollOp>>

\* penalty_system.py:177-214
pay_penalty(username, amount) ==
    /\ LET call == PenCall("pay_penalty", username, amount) IN
       IF username # NEEL_USERNAME \/ penalties = NoPenalties
       THEN /\ penOp' = call
            /\ UNCHANGED <<penalties, penaltyFile>>
       ELSE LET user_data == penalties[1]
                pending_penalty == user_data.total_penalty - user_data.paid_amount
                payment_entry == [date |-> today, amount |-> amount,
                                  remaining |-> pending_penalty - amount]
            IN
            IF amount <= 0 \/ amount > pending_penalty
            THEN /\ penOp' = call
                 /\ UNCHANGED <<penalties, penaltyFile>>
            ELSE /\ penalties' = <<[user_data EXCEPT
                                       !.paid_amount = @ + amount,
                                       !.paid_history = Append(@, payment_entry)]>>
                 /\ penaltyFile' = penalties'
                 /\ penOp' = [call EXCEPT !.success = TRUE]
    /\ UNCHANGED today
    /\ UNCHANGED <<coreVars, tribute_enabled, tributeLog, polls, pollOp>>

\* A check_donation_trigger that leaves paid_amount as it is.
check_donation_trigger_KeepsPaid(username) ==
    /\ LET call == PenCall("check_donation_trigger", username, 0) IN
       IF username # NEEL_USERNAME \/ penalties = NoPenalties
       THEN /\ penOp' = call
            /\ UNCHANGED <<penalties, penaltyFile>>
       ELSE LET user_data == penalties[1]
                pending == user_data.total_penalty - user_data.paid_amount
            IN
            IF user_data.consecutive_skips > SKIP_THRESHOLD /\ pending > 0
            THEN /\ penalties' = <<[user_data EXCEPT
                                       !.donated_amount = @ + pending,
                                       !.total_penalty = 0]>>
                 /\ penaltyFile' = penalties'
                 /\ penOp' = [call EXCEPT !.success = TRUE, !.donated = pending]
            ELSE /\ penOp' = call
                 /\ UNCHANGED <<penalties, penaltyFile>>
    /\ UNCHANGED today
    /\ UNCHANGED <<coreVars, tribute_enabled, tributeLog, polls, pollOp>>

\* penalty_system.py:216-241
check_donation_trigger(username) ==
    /\ LET call == PenCall("check_donation_trigger", username, 0) IN
       IF username # NEEL_USERNAME \/ penalties = NoPenalties
       THEN /\ penOp' = call
            /\ UNCHANGED <<penalties, penaltyFile>>
       ELSE LET user_data == penalties[1]
                pending == user_data.total_penalty - user_data.paid_amount
            IN
            IF user_data.consecutive_skips > SKIP_THRESHOLD /\ pending > 0
            THEN /\ penalties' = <<[user_data EXCEPT
                                       !.donated_amount = @ + pending,
                                       !.total_penalty = 0,
                                       !.paid_amount = 0]>>
                 /\ penaltyFile' = penalties'
                 /\ penOp' = [call EXCEPT !.success = TRUE, !.donated = pending]
            ELSE /\ penOp' = call
                 /\ UNCHANGED <<penalties, penaltyFile>>
    /\ UNCHANGED today
    /\ UNCHANGED <<coreVars, tribute_enabled, tributeLog, polls, pollOp>>

-----------------------------------------------------------------------------
(* PollManager, src/utilities.py *)

PollIds == {"p1", "p2"}

PollUsers == {1, 2, 3}

\* The option lists create_poll is called with; one repeats an option.
OptionLists == {<<"yes", "no">>, <<"yes", "yes">>, <<"yes">>, <<>>}

\* The option indices vote is called with.
OptionIdxs == -1 .. 2

\* The keys of the dict comprehension of utilities.py:91 in insertion order: an
\* option that is repeated makes one key.
RECURSIVE DictKeys(_)
DictKeys(options) ==
    IF options = <<>> THEN <<>>
    ELSE LET front == DictKeys(SubSeq(options, 1, Len(options) - 1))
             last == options[Len(options)]
         IN IF \E i \in 1 .. Len(front) : front[i] = last THEN front ELSE Append(front, last)

\* The entry of a poll id that is not in the dict.
NoPoll == [exists |-> FALSE, keys |-> <<>>, options |-> <<>>, voters |-> {}]

NoPollOp ==
    [op |-> "none", poll_id |-> "p1", user_id |-> 0, option_idx |-> 0, message |-> "none",
     before |-> [p \in PollIds |-> NoPoll]]

\* utilities.py:87-94: the poll of the id is created or replaced; options holds
\* the voter list of each key.
create_poll(poll_id, options) ==
    /\ polls' = [polls EXCEPT ![poll_id] =
                    [exists |-> TRUE, keys |-> DictKeys(options),
                     options |-> [i \in 1 .. Len(DictKeys(options)) |-> <<>>],
                     voters |-> {}]]
    /\ pollOp' = [NoPollOp EXCEPT !.op = "create_poll", !.poll_id = poll_id,
                                  !.message = "created", !.before = polls]
    /\ UNCHANGED <<coreVars, tribute_enabled, tributeLog, penalties, penaltyFile, today, penOp>>

\* A vote that does not look the voter up.
vote_NoRepeatCheck(poll_id, user_id, option_idx) ==
    /\ LET call == [NoPollOp EXCEPT !.op = "vote", !.poll_id = poll_id, !.user_id = user_id,
                                    !.option_idx = option_idx, !.before = polls]
           poll == polls[poll_id]
       IN
       IF ~poll.exists
       THEN /\ pollOp' = [call EXCEPT !.message = "Poll not found"]
            /\ UNCHANGED polls
       ELSE IF option_idx < 0 \/ option_idx >= Len(poll.keys)
       THEN /\ pollOp' = [call EXCEPT !.message = "Invalid option"]
            /\ UNCHANGED polls
       ELSE /\ polls' = [polls EXCEPT ![poll_id] =
                           [poll EXCEPT !.voters = @ \cup {user_id},
                                        !.options[option_idx + 1] = Append(@, user_id)]]
            /\ pollOp' = [call EXCEPT !.message = "Vote registered"]
    /\ UNCHANGED <<coreVars, tribute_enabled, tributeLog, penalties, penaltyFile, today, penOp>>

\* utilities.py:97-112; option_idx counts from 0.
vote(poll_id, user_id, option_idx) ==
    /\ LET call == [NoPollOp EXCEPT !.op = "vote", !.poll_id = poll_id, !.user_id = user_id,
                                    !.option_idx = option_idx, !.before = polls]
           poll == polls[poll_id]
       IN
       IF ~poll.exists
       THEN /\ pollOp' = [call EXCEPT !.message = "Poll not found"]
            /\ UNCHANGED polls
       ELSE IF user_id \in poll.voters
       THEN /\ pollOp' = [call EXCEPT !.message = "You already voted!"]
            /\ UNCHANGED polls
       ELSE IF option_idx < 0 \/ option_idx >= Len(poll.keys)
       THEN /\ pollOp' = [call EXCEPT !.message = "Invalid option"]
            /\ UNCHANGED polls
       ELSE /\ polls' = [polls EXCEPT ![poll_id] =
                           [poll EXCEPT !.voters = @ \cup {user_id},
                                        !.options[option_idx + 1] = Append(@, user_id)]]
            /\ pollOp' = [call EXCEPT !.message = "Vote registered"]
    /\ UNCHANGED <<coreVars, tribute_enabled, tributeLog, penalties, penaltyFile, today, penOp>>

-----------------------------------------------------------------------------
(* The daily tribute, src/main.py:493-532 *)

\* The usernames the tribute commands come from.
TributeUsernames == {None, "neel_x", "shul_x"}

Admins == {"shul_x"}

\* BotConfig.is_admin
is_admin(username) == username \in Admins

StopRefusal == "Only admins can stop the tribute."

StartRefusal == "Only admins can start the tribute."

StoppedText == "Daily tribute to Pramod has been stopped. Use /start_tribute to resume."

ResumedText == "Daily tribute to Pramod has been resumed!"

NoReplyText == "none"

MaxEvents == 3

\* The record of one run of a tribute handler: the command or the job, the
\* sender, the reply that was attempted, whether the tribute send was attempted,
\* and whether the call made raised.
TributeEvent(event, from_user, username, reply, send, raised) ==
    [event |-> event, from_user |-> from_user, username |-> username, reply |-> reply,
     send |-> send, raised |-> raised]

\* A stop_tribute_command that does not ask who sent the command.
stop_tribute_command_NoAdminCheck(from_user, username, raised) ==
    /\ Len(tributeLog) < MaxEvents
    /\ IF ~from_user
       THEN /\ ~raised
            /\ tributeLog' = Append(tributeLog,
                   TributeEvent("stop_tribute", from_user, username, NoReplyText, FALSE, FALSE))
            /\ UNCHANGED tribute_enabled
       ELSE /\ tribute_enabled' = FALSE
            /\ tributeLog' = Append(tributeLog,
                   TributeEvent("stop_tribute", from_user, username, StoppedText, FALSE, raised))
    /\ UNCHANGED <<coreVars, polls, pollOp, penalties, penaltyFile, today, penOp>>

\* main.py:508-519; the reply_text of either branch can raise.
stop_tribute_command(from_user, username, raised) ==
    /\ Len(tributeLog) < MaxEvents
    /\ IF ~from_user
       THEN /\ ~raised
            /\ tributeLog' = Append(tributeLog,
                   TributeEvent("stop_tribute", from_user, username, NoReplyText, FALSE, FALSE))
            /\ UNCHANGED tribute_enabled
       ELSE IF ~is_admin(username)
       THEN /\ tributeLog' = Append(tributeLog,
                   TributeEvent("stop_tribute", from_user, username, StopRefusal, FALSE, raised))
            /\ UNCHANGED tribute_enabled
       ELSE /\ tribute_enabled' = FALSE
            /\ tributeLog' = Append(tributeLog,
                   TributeEvent("stop_tribute", from_user, username, StoppedText, FALSE, raised))
    /\ UNCHANGED <<coreVars, polls, pollOp, penalties, penaltyFile, today, penOp>>

\* main.py:521-532
start_tribute_command(from_user, username, raised) ==
    /\ Len(tributeLog) < MaxEvents
    /\ IF ~from_user
       THEN /\ ~raised
            /\ tributeLog' = Append(tributeLog,
                   TributeEvent("start_tribute", from_user, username, NoReplyText, FALSE, FALSE))
            /\ UNCHANGED tribute_enabled
       ELSE IF ~is_admin(username)
       THEN /\ tributeLog' = Append(tributeLog,
                   TributeEvent("start_tribute", from_user, username, StartRefusal, FALSE, raised))
            /\ UNCHANGED tribute_enabled
       ELSE /\ tribute_enabled' = TRUE
            /\ tributeLog' = Append(tributeLog,
                   TributeEvent("start_tribute", from_user, username, ResumedText, FALSE, raised))
    /\ UNCHANGED <<coreVars, polls, pollOp, penalties, penaltyFile, today, penOp>>

\* main.py:493-506: one firing of the scheduled job; a send_message that raises
\* is caught and logged.
send_daily_tribute(raised) ==
    /\ Len(tributeLog) < MaxEvents
    /\ IF ~tribute_enabled
       THEN /\ ~raised
            /\ tributeLog' = Append(tributeLog,
                   TributeEvent("send_daily_tribute", FALSE, None, NoReplyText, FALSE, FALSE))
       ELSE tributeLog' = Append(tributeLog,
                   TributeEvent("send_daily_tribute", FALSE, None, NoReplyText, TRUE, raised))
    /\ UNCHANGED tribute_enabled
    /\ UNCHANGED <<coreVars, polls, pollOp, penalties, penaltyFile, today, penOp>>

\* The state of the side features after construction: main.py:46-48,
\* utilities.py:84, penalty_system.py:25-32.
SideInit ==
    /\ tribute_enabled = TRUE
    /\ tributeLog = <<>>
    /\ polls = [p \in PollIds |-> NoPoll]
    /\ pollOp = NoPollOp
    /\ penalties = NoPenalties
    /\ penaltyFile = NoPenalties
    /\ today = 1
    /\ penOp = NoPenOp

-----------------------------------------------------------------------------
(* The specification of the message pipeline *)

Init ==
    /\ botUsername = BotName
    /\ userMem = [u \in Users |-> <<>>]
    /\ groupMem = [g \in Groups |-> <<>>]
    /\ pc = "idle"
    /\ cur = NoCur
    /\ handled = 0
    /\ profiles = [u \in Users |-> None]
    /\ san = SanIdle
    /\ win = WinIdle
    /\ progress = [u \in Users |-> "default"]
    /\ SideInit

\* An update is delivered to handle_message.
Receive ==
    \E u \in Users, chat_type \in ChatTypes, text \in Texts, reply_to \in ReplyTargets :
        handle_message(u, chat_type, text, reply_to)

\* The handler task in progress takes its next step.
HandlerStep ==
    \/ send_chat_action
    \/ \E result \in BackendResults : call_backend(result)
    \/ \E outcome \in {"ok", "group", "user", "activity"} : store_and_clean(outcome)
    \/ reply_text
    \/ except_clause
    \/ error_handler

Next == Receive \/ HandlerStep

Spec == Init /\ [][Next]_vars

-----------------------------------------------------------------------------
(* The specification of the commands and the messages that name the assistant *)

\* /start and /reset, sent in the private chat with the bot.
CmdStart == \E u \in Users, username \in Usernames : start(u, "private", username)

CmdReset == \E u \in Users : reset_command(u, "private")

\* An update whose text names the assistant is delivered to handle_message,
\* from the private chat or from the group.
CmdReceive ==
    \E u \in Users, chat_type \in {"private", "group"} :
        handle_message(u, chat_type, NameText, "none")

\* The handler task in progress takes its next step; the backend returns a reply.
CmdHandlerStep ==
    \/ send_chat_action
    \/ call_backend([kind |-> "text", text |-> MarkdownReply])
    \/ \E outcome \in {"ok", "group", "user", "activity"} : store_and_clean(outcome)
    \/ reply_text
    \/ except_clause
    \/ error_handler

CmdNext == CmdStart \/ CmdReset \/ CmdReceive \/ CmdHandlerStep

CmdSpec == Init /\ [][CmdNext]_vars

-----------------------------------------------------------------------------
(* The specification of the sanitizer harness *)

SanInit ==
    /\ botUsername = BotName
    /\ userMem = [u \in Users |-> <<>>]
    /\ groupMem = [g \in Groups |-> <<>>]
    /\ pc = "idle"
    /\ cur = NoCur
    /\ handled = 0
    /\ profiles = [u \in Users |-> None]
    /\ san \in {[SanIdle EXCEPT !.input = x] : x \in SanInputs}
    /\ win = WinIdle
    /\ progress = [u \in Users |-> "default"]
    /\ SideInit

\* The sanitizer applied to the input.
SanOnce ==
    /\ san.once = NoText
    /\ san' = [san EXCEPT !.once = clean_markdown_response(san.input)]
    /\ UNCHANGED <<botUsername, userMem, groupMem, pc, cur, handled, profiles, win, progress, sideVars>>

\* The sanitizer applied to its own result.
SanTwice ==
    /\ san.once # NoText
    /\ san.twice = NoText
    /\ san' = [san EXCEPT !.twice = clean_markdown_response(san.once)]
    /\ UNCHANGED <<botUsername, userMem, groupMem, pc, cur, handled, profiles, win, progress, sideVars>>

SanNext == SanOnce \/ SanTwice

SanSpec == SanInit /\ [][SanNext]_vars


-----------------------------------------------------------------------------
(* The specification of the prompt harness: main.py:312-330 over stored memories *)

MaxHist == 6

Digits == <<"1", "2", "3", "4", "5", "6", "7", "8", "9">>

\* The i-th conversation u1 had with the bot in private.
PrivateTurn(i) ==
    [user_message |-> <<"p", Digits[i]>>, user_name |-> "Student", user_id |-> "u1",
     chat_id |-> "u1", chat_type |-> "private", ai_response |-> <<"r", Digits[i]>>]

\* The i-th conversation u2 had with the bot in the group g1.
GroupTurn(i) ==
    [user_message |-> <<"g", Digits[i]>>, user_name |-> "Student", user_id |-> "u2",
     chat_id |-> "g1", chat_type |-> "group", ai_response |-> <<"s", Digits[i]>>]

\* The memories after u2 had m conversations in g1 (written to the group and to
\* u2) and u1 had k conversations in private.
WinInit ==
    /\ botUsername = BotName
    /\ \E k \in 0..MaxHist, m \in 0..MaxHist :
           /\ userMem = [u \in Users |->
                            IF u = "u1" THEN [i \in 1..k |-> PrivateTurn(i)]
                            ELSE [i \in 1..m |-> GroupTurn(i)]]
           /\ groupMem = [g \in Groups |->
                            IF g = "g1" THEN [i \in 1..m |-> GroupTurn(i)] ELSE <<>>]
    /\ pc = "idle"
    /\ cur = NoCur
    /\ handled = 0
    /\ profiles = [u \in Users |-> None]
    /\ san = SanIdle
    /\ win = WinIdle
    /\ progress = [u \in Users |-> IF userMem[u] # <<>> THEN "active" ELSE "default"]
    /\ SideInit

\* The prompt handle_message builds for a message of u in a chat of the type.
WinBuild(u, chat_type) ==
    /\ ~win.built
    /\ win' = [built |-> TRUE, user |-> u, chat_type |-> chat_type,
               prompt |-> build_context_prompt(
                              get_user_info(u),
                              all_memories(u, ChatIdOf(u, chat_type), chat_type),
                              NameText, chat_type)]
    /\ UNCHANGED <<botUsername, userMem, groupMem, pc, cur, handled, profiles, san, progress, sideVars>>

WinNext == \E u \in Users, chat_type \in ChatTypes : WinBuild(u, chat_type)

WinSpec == WinInit /\ [][WinNext]_vars

-----------------------------------------------------------------------------
(* Vocabulary of the properties *)

\* The handler has returned for the update held in cur.
Finished == pc = "idle" /\ cur.decision # None

InGroup == cur.chat_type = "group" \/ cur.chat_type = "supergroup"

\* The text holds the four letters l, y, r, a in a row, in any letter case.
NamesLyra(text) ==
    \E i \in 1..(Len(text) - 3) :
        /\ text[i] \in {"l", "L"} /\ text[i + 1] \in {"y", "Y"}
        /\ text[i + 2] \in {"r", "R"} /\ text[i + 3] \in {"a", "A"}

\* The text holds "@" followed by the username of the bot.
MentionsBot(text) ==
    \E i \in 1..(Len(text) - Len(BotName)) :
        /\ text[i] = "@"
        /\ \A k \in 1..Len(BotName) : text[i + k] = BotName[k]

Addressed == MentionsBot(cur.text) \/ cur.reply_to = "bot" \/ NamesLyra(cur.text)

\* The topical keywords of the engagement policy.
TopicalKeywords ==
    {<<"m", "a", "r", "k", "e", "t">>, <<"s", "t", "r", "a", "t", "e", "g", "y">>,
     <<"l", "o", "s", "s">>, <<"p", "r", "o", "f", "i", "t">>}

Topical(text) ==
    \E kw \in TopicalKeywords : \E i \in 1..(Len(text) - Len(kw) + 1) :
        \A k \in 1..Len(kw) : text[i + k - 1] = kw[k]

BackendCalled == cur.result.kind # "none"

\* The backend yielded an empty result, a null result or the silence sentinel.
SilentResult ==
    \/ cur.result.kind = "null"
    \/ cur.result.kind = "text" /\ cur.result.text \in {<<>>, SilenceSentinel}

\* The turns of the scopes that were not there when the call began.
NewUserTurns(u) == SubSeq(userMem[u], Len(cur.before.user[u]) + 1, Len(userMem[u]))
NewGroupTurns(g) == SubSeq(groupMem[g], Len(cur.before.group[g]) + 1, Len(groupMem[g]))

\* The turn of the update in cur, with the given reply.
TurnOf(reply) ==
    [user_message |-> cur.text, user_name |-> cur.conversation_data.user_name,
     user_id |-> cur.user, chat_id |-> cur.chat_id, chat_type |-> cur.chat_type,
     ai_response |-> reply]

-----------------------------------------------------------------------------
(* C1 *)

\* C1: a text message in a private chat is never skipped, whatever its text:
\* the handler goes on to the try block, calls the backend in every run in
\* which the typing indicator went through, and has attempted an outbound
\* message (the reply or the apology) by the time it returns.
C1_PrivateAlwaysEngages ==
    (cur.chat_type = "private" /\ cur.text # <<>> /\ cur.text # NoText) =>
        /\ cur.decision = "EngageDirect"
        /\ pc \in {"store", "reply"} => BackendCalled
        /\ Finished =>
              /\ cur.typing = "ok" => BackendCalled
              /\ cur.attempted # <<>>

\* A private message whose text addresses nobody has been answered.
C1_Witness ==
    /\ Finished /\ cur.chat_type = "private" /\ cur.text = HiText
    /\ BackendCalled /\ cur.reply = "ok" /\ Len(cur.sent) = 1

-----------------------------------------------------------------------------
(* C2 *)

\* C2: a group or supergroup text message that mentions the bot, or is a reply
\* to the bot, or holds the name lyra in any letter case, is engaged; each
\* trigger suffices alone.  The backend is called in every run in which the
\* typing indicator went through, every message sent for it is threaded to
\* the chat it came from, and when nothing raised exactly the sanitized reply
\* is sent.
C2_AddressedInGroupEngages ==
    (InGroup /\ cur.text # <<>> /\ cur.text # NoText /\ Addressed) =>
        /\ cur.decision = "EngageDirect"
        /\ \A i \in 1..Len(cur.sent) :
               cur.sent[i].threaded /\ cur.sent[i].chat_id = cur.chat_id
        /\ Finished =>
              /\ cur.typing = "ok" => BackendCalled
              /\ cur.attempted # <<>>
              /\ (cur.typing = "ok" /\ cur.store = "ok" /\ cur.reply = "ok") =>
                     cur.sent = <<[chat_id |-> cur.chat_id,
                                   text |-> clean_markdown_response(cur.ai_response),
                                   kind |-> "reply", threaded |-> TRUE]>>

\* A supergroup message that only names the assistant, in mixed case, has been
\* answered with a threaded reply.
C2_Witness ==
    /\ Finished /\ cur.chat_type = "supergroup" /\ cur.text = NameText
    /\ cur.reply_to = "none" /\ ~MentionsBot(cur.text)
    /\ BackendCalled /\ Len(cur.sent) = 1 /\ cur.sent[1].threaded

-----------------------------------------------------------------------------
(* C3 *)

\* C3: a group message with no mention, no reply to the bot and no name-call
\* whose text holds a topical keyword is engaged (proactively): it is not
\* skipped, and the backend is called for it.
C3_KeywordEngagesProactive ==
    (InGroup /\ Finished /\ cur.text # <<>> /\ ~Addressed /\ Topical(cur.text)) =>
        /\ cur.decision # "Skip"
        /\ cur.typing = "ok" => BackendCalled

-----------------------------------------------------------------------------
(* C4 *)

\* C4: a skipped group message adds exactly one turn to the memory of its
\* group, holding the inbound text and a null reply, with no backend call and
\* no outbound message.
C4_SkipIsObserved ==
    (InGroup /\ Finished /\ cur.decision = "Skip") =>
        /\ NewGroupTurns(cur.chat_id) = <<TurnOf(NoText)>>
        /\ ~BackendCalled
        /\ cur.attempted = <<>>

-----------------------------------------------------------------------------
(* C5 *)

\* C5: when the backend yields an empty result, a null result or the silence
\* sentinel, no outbound message is sent and no turn that holds a reply is
\* written to any memory scope.
C5_SilenceSuppressesAll ==
    (BackendCalled /\ SilentResult) =>
        /\ cur.sent = <<>>
        /\ \A u \in Users : \A i \in 1..Len(NewUserTurns(u)) :
               NewUserTurns(u)[i].ai_response \in {NoText, <<>>}
        /\ \A g \in Groups : \A i \in 1..Len(NewGroupTurns(g)) :
               NewGroupTurns(g)[i].ai_response \in {NoText, <<>>}


-----------------------------------------------------------------------------
(* C6 *)

\* The backend returned a text that is neither empty nor the silence sentinel.
NonSilentReply == cur.result.kind = "text" /\ ~SilentResult

\* C6: for an engaged message with a non-silent reply whose writes went
\* through, a group or supergroup chat gets exactly one completed turn appended
\* to the memory of the group and exactly one to the direct memory of the
\* sender; a private chat gets exactly one appended to the direct memory of the
\* sender and no group memory changes.  No other scope changes.
C6_WriteBackScopes ==
    (cur.decision = "EngageDirect" /\ NonSilentReply /\ cur.store \in {"ok", "activity"}) =>
        /\ userMem = [cur.before.user EXCEPT
                         ![cur.user] = Append(@, TurnOf(cur.ai_response))]
        /\ cur.ai_response = cur.result.text
        /\ IF cur.chat_type = "group" \/ cur.chat_type = "supergroup"
           THEN groupMem = [cur.before.group EXCEPT
                               ![cur.chat_id] = Append(@, TurnOf(cur.ai_response))]
           ELSE groupMem = cur.before.group

\* A second supergroup conversation has been written behind the first one in
\* both scopes.
C6_Witness ==
    /\ Finished /\ cur.chat_type = "supergroup" /\ NonSilentReply /\ cur.reply = "ok"
    /\ Len(cur.before.group["g2"]) = 1 /\ Len(groupMem["g2"]) = 2
    /\ Len(cur.before.user[cur.user]) = 1 /\ Len(userMem[cur.user]) = 2

-----------------------------------------------------------------------------
(* C7 *)

TechnicalReply ==
    [chat_id |-> cur.chat_id, text |-> TechnicalText, kind |-> "reply",
     threaded |-> (cur.chat_type # "private")]

\* C7 as stated: when the backend call raises, the exception is logged and no
\* outbound message is sent to the chat for that message.
C7_BackendErrorSendsNothing ==
    cur.result.kind = "raise" =>
        /\ \E i \in 1..Len(cur.logs) : cur.logs[i] = "Error getting Gemini response"
        /\ cur.sent = <<>>

\* C7 as amended: when the backend call raises, the wrapper catches and logs
\* the exception and returns its technical-difficulties text; handle_message
\* goes on with that text as the reply (its except clause is not entered by
\* the backend error), writes it into the turn and sends it to the chat.
C7_BackendErrorSendsFallback ==
    cur.result.kind = "raise" =>
        /\ \E i \in 1..Len(cur.logs) : cur.logs[i] = "Error getting Gemini response"
        /\ cur.ai_response = TechnicalText
        /\ cur.store = "none" => pc = "store"
        /\ cur.store \in {"ok", "activity"} =>
               userMem[cur.user][Len(userMem[cur.user])].ai_response = TechnicalText
        /\ cur.reply = "ok" => cur.sent = <<TechnicalReply>>
        /\ (Finished /\ cur.store = "ok") => "reply" \in {cur.attempted[i] : i \in 1..Len(cur.attempted)}

\* The backend raised and the technical-difficulties text went out as the reply.
C7_Witness ==
    /\ Finished /\ cur.result.kind = "raise" /\ cur.sent = <<TechnicalReply>>

-----------------------------------------------------------------------------
(* C8 *)

\* Something failed while the update in cur was handled.
CurFailed ==
    \/ cur.result.kind = "raise"
    \/ cur.typing = "raised"
    \/ cur.store \in {"group", "user", "activity"}
    \/ cur.reply = "raised"
    \/ cur.apology = "raised"

\* C8: no failure inside the pipeline stops the bot.  After a failure of the
\* backend call, of a memory write, of the reply dispatch or of the apology,
\* the handler task can always take its next step, and once it has returned
\* the bot accepts the next update.  (Every step moves the task forward, so
\* it returns.)
C8_FailuresNeverStopTheBot ==
    CurFailed =>
        IF pc = "idle" THEN (handled < MaxMsgs => ENABLED Receive)
        ELSE ENABLED HandlerStep

\* A second update has been answered after the user write of the first one
\* failed: the first turn is in the group scope and not in its sender's.
C8_Witness ==
    /\ Finished /\ handled = 2 /\ cur.reply = "ok" /\ ~CurFailed
    /\ \E g \in Groups :
           /\ Len(cur.before.group[g]) = 1
           /\ cur.before.user[cur.before.group[g][1].user_id] = <<>>

-----------------------------------------------------------------------------
(* C9 *)

\* C9: the sanitizer is idempotent: sanitizing its own result changes nothing.
C9_SanitizerIdempotent ==
    san.twice # NoText => san.twice = san.once


-----------------------------------------------------------------------------
(* C10 *)

\* The lines of the prompt's history.
HistoryLines == {win.prompt.history[i] : i \in 1..Len(win.prompt.history)}

\* C10: for a message handled in a group, the most recent turn of the group's
\* memory is in the history window of the request whenever the group memory
\* is non-empty, however long the direct history of the sender is.
C10_GroupTurnsInWindow ==
    LET g == ChatIdOf(win.user, win.chat_type) IN
    (win.built /\ win.chat_type \in {"group", "supergroup"} /\ groupMem[g] # <<>>) =>
        LET last == groupMem[g][Len(groupMem[g])] IN
        /\ [speaker |-> last.user_name, text |-> last.user_message] \in HistoryLines
        /\ [speaker |-> "Bot", text |-> last.ai_response] \in HistoryLines

-----------------------------------------------------------------------------
(* The specification of the formatting harness: the prompt built over turns *)
(* whose reply is a text, is empty or is None                               *)

\* The i-th stored conversation of u1, with a reply of the given kind.
FmtTurn(i, kind) ==
    [user_message |-> <<"p", Digits[i]>>, user_name |-> "Student", user_id |-> "u1",
     chat_id |-> "u1", chat_type |-> "private",
     ai_response |-> CASE kind = "text"  -> <<"r", Digits[i]>>
                       [] kind = "empty" -> <<>>
                       [] kind = "null"  -> NoText]

FmtInit ==
    /\ botUsername = BotName
    /\ \E n \in 0..MaxHist : \E kinds \in [1..n -> {"text", "empty", "null"}] :
           userMem = [u \in Users |->
                         IF u = "u1" THEN [i \in 1..n |-> FmtTurn(i, kinds[i])] ELSE <<>>]
    /\ groupMem = [g \in Groups |-> <<>>]
    /\ pc = "idle"
    /\ cur = NoCur
    /\ handled = 0
    /\ profiles = [u \in Users |-> None]
    /\ san = SanIdle
    /\ win = WinIdle
    /\ progress = [u \in Users |-> IF userMem[u] # <<>> THEN "active" ELSE "default"]
    /\ SideInit

FmtSpec == FmtInit /\ [][WinNext]_vars

-----------------------------------------------------------------------------
(* Vocabulary of the window properties *)

\* The last min(k, Len(turns)) of the turns, oldest first.
LastTurns(turns, k) ==
    LET n == IF k < Len(turns) THEN k ELSE Len(turns) IN
    [i \in 1..n |-> turns[Len(turns) - n + i]]

SpeakerLine(turn) == [speaker |-> turn.user_name, text |-> turn.user_message]
ReplyLine(turn) == [speaker |-> "Bot", text |-> turn.ai_response]

\* The serialized window of turns that all hold a message and a reply: two
\* lines a turn.
WindowLines(turns) ==
    [j \in 1..(2 * Len(turns)) |->
        IF j % 2 = 1 THEN SpeakerLine(turns[(j + 1) \div 2])
        ELSE ReplyLine(turns[j \div 2])]

\* The history of the request built over the direct scope of its user, read
\* with a window of k turns.
IsWindowOf(k) ==
    LET scope == userMem[win.user] IN
    IF scope = <<>> THEN win.prompt.history = NoPrevious
    ELSE win.prompt.history = WindowLines(LastTurns(scope, k))

-----------------------------------------------------------------------------
(* C11 *)

-----------------------------------------------------------------------------
(* C12 *)

HasReply(turn) == turn.ai_response # NoText /\ turn.ai_response # <<>>

\* C12: in the serialized history every turn of the window is rendered as its
\* line "speaker: message", followed by the reply line exactly when the reply
\* of the turn is neither null nor empty; the lines keep the order of the
\* turns, and there is no other line.  (The turns hold a message, as every
\* turn handle_message stores does.)
C12_ReplyLineOmittedWhenNull ==
    (win.built /\ win.chat_type = "private" /\ userMem[win.user] # <<>>) =>
        LET window == LastTurns(userMem[win.user], 5)
            replies(i) == Cardinality({j \in 1..(i - 1) : HasReply(window[j])})
            at(i) == i + replies(i)
            history == win.prompt.history
        IN
        /\ Len(history) = Len(window) + replies(Len(window) + 1)
        /\ \A i \in 1..Len(window) :
               /\ history[at(i)] = SpeakerLine(window[i])
               /\ HasReply(window[i]) => history[at(i) + 1] = ReplyLine(window[i])

\* The history of a request holds a turn without reply (null), a turn with an
\* empty reply and a turn with a reply, in a row.
C12_Witness ==
    /\ win.built /\ win.chat_type = "private" /\ win.user = "u1"
    /\ Len(userMem["u1"]) = 3
    /\ userMem["u1"][1].ai_response = NoText
    /\ userMem["u1"][2].ai_response = <<>>
    /\ HasReply(userMem["u1"][3])
    /\ Len(win.prompt.history) = 4

-----------------------------------------------------------------------------
(* C13 *)

\* C13: the request holds the roster of participants and mention handles if
\* and only if the chat type is group or supergroup; the request built for a
\* private chat has an empty chat context.
C13_RosterOnlyInGroups ==
    win.built =>
        /\ Roster # <<>>
        /\ IF win.chat_type = "group" \/ win.chat_type = "supergroup"
           THEN win.prompt.chat_context = Roster
           ELSE win.prompt.chat_context = <<>>

\* A request built for a supergroup holds the four mention handles.
C13_Witness ==
    /\ win.built /\ win.chat_type = "supergroup"
    /\ Len(win.prompt.chat_context) = 4
    /\ win.prompt.chat_context[1] = "@TheShul"

-----------------------------------------------------------------------------
(* C17 *)

\* A write of the turn to a memory scope failed with a storage error.
WriteFailed == cur.store = "group" \/ cur.store = "user"

\* C17: when a memory write fails after a non-silent reply was generated, the
\* generated reply is still dispatched for that message: by the time the
\* handler returns, the sanitized reply has been handed to the chat.
C17_StorageFailureStillDelivers ==
    (Finished /\ NonSilentReply /\ WriteFailed) =>
        /\ \E i \in 1..Len(cur.attempted) : cur.attempted[i] = "reply"
        /\ cur.apology = "ok" =>
               \E i \in 1..Len(cur.sent) :
                   cur.sent[i].text = clean_markdown_response(cur.ai_response)

-----------------------------------------------------------------------------
(* C18 *)

\* C18: while the backend call of one message is pending, the handler of
\* another message can start and make progress: the bot accepts the next
\* update while the task in progress stands at its backend call.
C18_OthersProgressWhileBackendPending ==
    (pc = "backend" /\ handled < MaxMsgs) => ENABLED Receive

-----------------------------------------------------------------------------
(* C14 *)

\* C14: after /reset by a user the direct scope of that user is empty, and
\* the request built for the next message of that user in a private chat
\* holds no earlier turn.
C14_ResetClearsHistory ==
    [][(pc = "idle" /\ cur.decision = "reset") =>
          /\ userMem[cur.user] = <<>>
          /\ (cur'.decision = "EngageDirect" /\ cur'.user = cur.user
                 /\ cur'.chat_type = "private") =>
                 cur'.prompt.history = NoPrevious]_vars

-----------------------------------------------------------------------------
(* C15 *)

NonEmptyName(name) == name # None /\ name # ""

-----------------------------------------------------------------------------
(* C16 *)

\* C16: /start stores as display name the first name of the user when it is
\* present, the username when the first name is absent and the username is
\* present, and "Unknown" only when both are absent.
C16_RegistrationNameChain ==
    cur.decision = "start" =>
        profiles[cur.user] =
            IF first_name(cur.user) # None THEN first_name(cur.user)
            ELSE IF cur.username # None THEN cur.username
            ELSE "Unknown"

-----------------------------------------------------------------------------
(* C19 *)

IsPrefix(s, t) == Len(s) <= Len(t) /\ SubSeq(t, 1, Len(s)) = s

\* C19: turns are append-only: no step of a message handler or of a command
\* handler modifies, reorders or removes a turn that is in a user or group
\* scope; the contents of every scope before the step are a prefix of its
\* contents after the step.
C19_TurnsAppendOnly ==
    [][/\ \A u \in Users : IsPrefix(userMem[u], userMem'[u])
       /\ \A g \in Groups : IsPrefix(groupMem[g], groupMem'[g])]_vars

\* A second turn has been appended behind the first one of a direct scope,
\* and the first one is as it was.
C19_Witness ==
    \E u \in Users :
        /\ cur.decision = "EngageDirect" /\ cur.user = u /\ cur.store = "ok"
        /\ Len(cur.before.user[u]) = 1 /\ Len(userMem[u]) = 2
        /\ userMem[u][1] = cur.before.user[u][1]
        /\ userMem[u][2].ai_response = cur.ai_response

-----------------------------------------------------------------------------
(* C20 *)

\* C20: /start in a private chat creates or updates the profile of the
\* sender, dispatches exactly one welcome message (the one send is the
\* welcome, and it holds the stored display name), and leaves every user and
\* group memory scope as it was.
C20_StartOnlyRegisters ==
    (cur.decision = "start" /\ cur.chat_type = "private") =>
        /\ NonEmptyName(profiles[cur.user])
        /\ cur.attempted = <<"welcome">>
        /\ cur.reply = "ok" =>
               cur.sent = <<[chat_id |-> cur.user,
                             text |-> WelcomeText(profiles[cur.user]),
                             kind |-> "welcome", threaded |-> FALSE]>>
        /\ cur.reply # "ok" => cur.sent = <<>>
        /\ userMem = cur.before.user
        /\ groupMem = cur.before.group

\* Neel has sent /start after a conversation: the profile holds "Neel", the
\* welcome is out and the turn of the conversation is all the memory holds.
C20_Witness ==
    /\ pc = "idle" /\ cur.decision = "start" /\ cur.user = "u1" /\ cur.reply = "ok"
    /\ profiles["u1"] = "Neel"
    /\ Len(cur.sent) = 1
    /\ Len(userMem["u1"]) = 1

-----------------------------------------------------------------------------
(* The specification of the penalty ledger *)

PenOps(username) ==
    \/ record_missed_progress(username)
    \/ add_exception(username)
    \/ mark_progress_done(username)
    \/ check_donation_trigger(username)
    \/ \E amount \in Amounts : pay_penalty(username, amount)

PenNext ==
    \/ \E username \in PenaltyUsers : PenOps(username)
    \/ next_day
    \/ load_penalties

PenSpec == Init /\ [][PenNext]_vars

-----------------------------------------------------------------------------
(* The specification of the polls *)

PollNext ==
    \/ \E poll_id \in PollIds, options \in OptionLists : create_poll(poll_id, options)
    \/ \E poll_id \in PollIds, user_id \in PollUsers, option_idx \in OptionIdxs :
          vote(poll_id, user_id, option_idx)

PollSpec == Init /\ [][PollNext]_vars

-----------------------------------------------------------------------------
(* The specification of the daily tribute *)

TributeNext ==
    \/ \E from_user \in BOOLEAN, username \in TributeUsernames, raised \in BOOLEAN :
          stop_tribute_command(from_user, username, raised)
    \/ \E from_user \in BOOLEAN, username \in TributeUsernames, raised \in BOOLEAN :
          start_tribute_command(from_user, username, raised)
    \/ \E raised \in BOOLEAN : send_daily_tribute(raised)

TributeSpec == Init /\ [][TributeNext]_vars

-----------------------------------------------------------------------------
(* Claims about the penalty ledger *)

\* The ledger holds the record of Neel.
HasRecord(p) == p # NoPenalties

\* total_penalty - paid_amount of a ledger that holds the record.
Pending(p) == p[1].total_penalty - p[1].paid_amount

\* The last operation was a call of op for Neel that found a record.
NeelCall(op) ==
    /\ penOp.op = op
    /\ penOp.username = NEEL_USERNAME
    /\ HasRecord(penOp.before)

\* C22: pay_penalty rejects an amount that is not positive or that exceeds the
\* pending penalty, with success False and the record and the file as they
\* were; a payment it accepts adds exactly the amount to paid_amount and
\* appends one entry to paid_history.
C22_PayPenaltyWithinPending ==
    NeelCall("pay_penalty") =>
        LET before == penOp.before[1]
            amount == penOp.amount
        IN IF amount <= 0 \/ amount > Pending(penOp.before)
           THEN /\ ~penOp.success
                /\ penalties = penOp.before
                /\ penaltyFile = penOp.file_before
           ELSE /\ penOp.success
                /\ HasRecord(penalties)
                /\ penalties[1].paid_amount = before.paid_amount + amount
                /\ Len(penalties[1].paid_history) = Len(before.paid_history) + 1
                /\ SubSeq(penalties[1].paid_history, 1, Len(before.paid_history))
                      = before.paid_history
                /\ penalties[1].paid_history[Len(penalties[1].paid_history)].amount = amount
                /\ penalties[1].total_penalty = before.total_penalty

\* An overpayment is rejected after an earlier payment was accepted.
C22_Witness ==
    /\ NeelCall("pay_penalty")
    /\ penOp.amount > Pending(penOp.before)
    /\ ~penOp.success
    /\ penOp.before[1].paid_history # <<>>
    /\ Pending(penOp.before) > 0

\* C23: with 2 consecutive skipped days and a positive pending amount,
\* check_donation_trigger moves the pending amount to donated_amount and resets
\* total_penalty and paid_amount to 0.
C23_DonatedAfterTwoSkips ==
    ( /\ NeelCall("check_donation_trigger")
      /\ penOp.before[1].consecutive_skips >= SKIP_THRESHOLD
      /\ Pending(penOp.before) > 0 )
    => /\ penOp.success
       /\ HasRecord(penalties)
       /\ penalties[1].donated_amount
             = penOp.before[1].donated_amount + Pending(penOp.before)
       /\ penalties[1].total_penalty = 0
       /\ penalties[1].paid_amount = 0

\* C25: 0 <= paid_amount <= total_penalty in the ledger and in the file after
\* any sequence of the operations.
C25_PaidWithinTotal ==
    \A p \in {penalties, penaltyFile} :
        HasRecord(p) => (0 <= p[1].paid_amount /\ p[1].paid_amount <= p[1].total_penalty)

\* A donation found a part of the penalty paid.
C25_Witness ==
    /\ NeelCall("check_donation_trigger")
    /\ penOp.success
    /\ penOp.before[1].paid_amount > 0
    /\ penalties[1].paid_amount = 0

RECURSIVE SumAmounts(_)
\* The sum of the amounts of the entries of a paid_history.
SumAmounts(history) ==
    IF history = <<>> THEN 0
    ELSE history[1].amount + SumAmounts(Tail(history))

\* C26: every rupee of penalty ever recorded is pending, donated or paid:
\* PENALTY_AMOUNT * missed_days
\*    = (total_penalty - paid_amount) + donated_amount + sum of paid_history.
C26_PenaltyConserved ==
    \A p \in {penalties, penaltyFile} :
        HasRecord(p) =>
            PENALTY_AMOUNT * p[1].missed_days
               = Pending(p) + p[1].donated_amount + SumAmounts(p[1].paid_history)

\* A record with a payment and a donation.
C26_Witness ==
    /\ HasRecord(penalties)
    /\ penalties[1].donated_amount > 0
    /\ penalties[1].paid_history # <<>>
    /\ penalties[1].missed_days = MaxMissed

\* C27: after every operation of the manager the file equals the ledger in
\* memory, the reset of consecutive_skips by mark_progress_done included.
C27_FileEqualsMemory ==
    penOp.op # "none" => penaltyFile = penalties

-----------------------------------------------------------------------------
(* Claims about the polls *)

\* The set of the members of a sequence.
Range(seq) == {seq[i] : i \in 1 .. Len(seq)}

\* The places where a user id stands in the voter lists of a poll.
Places(poll, user_id) ==
    {<<i, j>> \in (1 .. Len(poll.options)) \X (1 .. Cardinality(PollUsers) + 1) :
        j <= Len(poll.options[i]) /\ poll.options[i][j] = user_id}

\* The vote that was called is one that the poll it found must reject.
MustReject ==
    LET poll == pollOp.before[pollOp.poll_id] IN
    \/ ~poll.exists
    \/ pollOp.user_id \in poll.voters
    \/ pollOp.option_idx < 0
    \/ pollOp.option_idx >= Len(poll.keys)

\* C29: in every poll each user id is in at most one voter list, the voters
\* set is the union of the voter lists, and a vote that is rejected leaves the
\* polls unchanged.
C29_OneVotePerUser ==
    /\ \A p \in PollIds :
          polls[p].exists =>
             /\ \A u \in PollUsers : Cardinality(Places(polls[p], u)) <= 1
             /\ polls[p].voters
                   = UNION {Range(polls[p].options[i]) : i \in 1 .. Len(polls[p].options)}
    /\ (pollOp.op = "vote" /\ MustReject) => polls = pollOp.before

\* A repeat vote is rejected in a poll with voters on both options.
C29_Witness ==
    /\ pollOp.op = "vote"
    /\ pollOp.message = "You already voted!"
    /\ LET poll == polls[pollOp.poll_id] IN
          /\ Len(poll.options) = 2
          /\ poll.options[1] # <<>>
          /\ poll.options[2] # <<>>

-----------------------------------------------------------------------------
(* Claims about the daily tribute *)

\* The record of the handler that ran in the step.
LastEvent == tributeLog'[Len(tributeLog')]

TributeCommands == {"stop_tribute", "start_tribute"}

\* C24: tribute_enabled changes only in a tribute command of an admin; the
\* command of a sender who is not an admin leaves it unchanged and replies with
\* the refusal; a firing of the job sends the tribute exactly if tribute_enabled
\* is true when it fires.
C24_TributeFlagAdminOnly ==
    [][ /\ tribute_enabled' # tribute_enabled =>
              /\ Len(tributeLog') = Len(tributeLog) + 1
              /\ LastEvent.event \in TributeCommands
              /\ LastEvent.from_user
              /\ is_admin(LastEvent.username)
        /\ Len(tributeLog') = Len(tributeLog) + 1 =>
              /\ ( /\ LastEvent.event \in TributeCommands
                   /\ LastEvent.from_user
                   /\ ~is_admin(LastEvent.username) )
                 => /\ tribute_enabled' = tribute_enabled
                    /\ LastEvent.reply = IF LastEvent.event = "stop_tribute"
                                         THEN StopRefusal ELSE StartRefusal
              /\ LastEvent.event = "send_daily_tribute"
                 => (LastEvent.send <=> tribute_enabled)
      ]_vars

\* A sender who is not an admin was refused, an admin stopped the tribute, and
\* the job fired without sending.
C24_Witness ==
    /\ Len(tributeLog) = 3
    /\ tributeLog[1].event = "stop_tribute"
    /\ tributeLog[1].reply = StopRefusal
    /\ tributeLog[2].event = "stop_tribute"
    /\ tributeLog[2].reply = StoppedText
    /\ tributeLog[3].event = "send_daily_tribute"
    /\ ~tributeLog[3].send
    /\ ~tribute_enabled

-----------------------------------------------------------------------------
(* Claims about the reply that is stored and the replies that are sent *)

\* C21: for a non-silent reply whose writes and dispatch went through, the
\* reply text of the stored turn is the text that was dispatched, and the turn
\* is in memory when the dispatch is attempted.
C21_StoredReplyIsDispatched ==
    /\ (Finished /\ NonSilentReply /\ cur.store = "ok" /\ cur.reply = "ok") =>
          /\ NewUserTurns(cur.user) # <<>>
          /\ \A i \in 1 .. Len(NewUserTurns(cur.user)) :
                NewUserTurns(cur.user)[i].ai_response = cur.sent[Len(cur.sent)].text
    /\ (pc = "reply" /\ NonSilentReply) => NewUserTurns(cur.user) # <<>>

\* generate_content raised, or returned a response whose text is empty or None.
FallbackResult ==
    \/ cur.result.kind \in {"raise", "null"}
    \/ cur.result.kind = "text" /\ cur.result.text = <<>>

\* The text the wrapper returns in place of a reply.
FallbackText == IF cur.result.kind = "raise" THEN TechnicalText ELSE RephraseText

\* The turns the request of the update in cur was built from.
TurnsRead ==
    Range(cur.before.user[cur.user])
    \cup (IF InGroup THEN Range(cur.before.group[cur.chat_id]) ELSE {})

\* C28: when generate_content raises or returns empty text, the fallback text
\* of the wrapper is the ai_response of the turn appended to the memory of the
\* sender, and of the group in a group chat; a turn that holds a fallback text
\* is rendered with its Bot line in the history of a later request.
C28_FallbackStoredAsReply ==
    /\ (cur.decision = "EngageDirect" /\ FallbackResult /\ cur.store \in {"ok", "activity"}) =>
          /\ cur.ai_response = FallbackText
          /\ userMem = [cur.before.user EXCEPT ![cur.user] = Append(@, TurnOf(FallbackText))]
          /\ IF InGroup
             THEN groupMem = [cur.before.group EXCEPT
                                 ![cur.chat_id] = Append(@, TurnOf(FallbackText))]
             ELSE groupMem = cur.before.group
    /\ cur.decision = "EngageDirect" =>
          \A turn \in TurnsRead :
              turn.ai_response \in {TechnicalText, RephraseText}
                 => ReplyLine(turn) \in Range(cur.prompt.history)

\* The request of a second group message holds the Bot line of the technical
\* difficulties text that answered the first.
C28_Witness ==
    /\ cur.decision = "EngageDirect"
    /\ InGroup
    /\ Len(cur.before.group[cur.chat_id]) = 1
    /\ cur.before.group[cur.chat_id][1].ai_response = TechnicalText
    /\ [speaker |-> "Bot", text |-> TechnicalText] \in Range(cur.prompt.history)
    /\ FallbackResult
    /\ cur.store = "ok"

\* C30: for a message that passes the engagement check at most one text is
\* delivered to the chat, the sanitized reply or the apology, and the apology
\* is attempted only if the typing indicator, the write-back or the reply
\* dispatch raised.
C30_AtMostOneOutbound ==
    cur.decision = "EngageDirect" =>
        /\ Len(cur.sent) <= 1
        /\ \A i \in 1 .. Len(cur.sent) :
              \/ cur.sent[i] = Outbound(cur, clean_markdown_response(cur.ai_response), "reply")
              \/ cur.sent[i] = Outbound(cur, SorryText, "apology")
        /\ "apology" \in Range(cur.attempted) =>
              \/ cur.typing = "raised"
              \/ cur.store \in {"group", "user", "activity"}
              \/ cur.reply = "raised"

\* The reply dispatch raised and the apology was delivered in its place.
C30_Witness ==
    /\ Finished
    /\ cur.reply = "raised"
    /\ cur.attempted = <<"reply", "apology">>
    /\ Len(cur.sent) = 1
    /\ cur.sent[1].kind = "apology"

====
